---- MODULE Spec2Model ----
(***************************************************************************)
(* Model of src/fu-engine-integrity.c: the integrity snapshot, a           *)
(* GHashTable from id to checksum, with its construction (new,             *)
(* add_checksum, measure), serialisation (to_string, from_string) and      *)
(* comparison (compare).                                                   *)
(*                                                                         *)
(* A C string is a sequence of one-character strings.  A pointer that may  *)
(* be NULL is a sequence of length at most one: NULL is <<>>, a pointer to *)
(* v is <<v>>.  A GHashTable is the set of its <<key, value>> entries; the *)
(* order in which GHashTableIter visits them is not fixed by GLib and is   *)
(* an input of every operation that iterates.                              *)
(***************************************************************************)
EXTENDS Integers, Sequences, FiniteSets, TLC

VARIABLES self, other, saved, savedFrom, last, ret

vars == <<self, other, saved, savedFrom, last, ret>>

(***************************************************************************)
(* Bounds of the model.                                                    *)
(***************************************************************************)
\* the longest text handed to from_string has this many lines
MaxLines == 2

(***************************************************************************)
(* C values                                                                *)
(***************************************************************************)
NULL == <<>>

Ptr(v) == <<v>>

Range(s) == {s[i] : i \in 1..Len(s)}

G_IO_ERROR_NOT_FOUND == "G_IO_ERROR_NOT_FOUND"

G_IO_ERROR_INVALID_DATA == "G_IO_ERROR_INVALID_DATA"

NoError == "none"

(***************************************************************************)
(* GLib strings                                                            *)
(***************************************************************************)
\* strstr() for a one-character needle: index of its first occurrence, 0 if none
StrChr(s, c) ==
    IF \E i \in 1..Len(s) : s[i] = c
    THEN CHOOSE i \in 1..Len(s) : s[i] = c /\ \A j \in 1..(i - 1) : s[j] # c
    ELSE 0

RECURSIVE SplitRemainder(_, _, _)
\* the loop of g_strsplit over the remainder; max_tokens < 1 means no limit
SplitRemainder(remainder, delim, max_tokens) ==
    LET i == StrChr(remainder, delim)
    IN IF i = 0 \/ max_tokens = 1
       THEN <<remainder>>
       ELSE <<SubSeq(remainder, 1, i - 1)>>
            \o SplitRemainder(SubSeq(remainder, i + 1, Len(remainder)),
                              delim,
                              IF max_tokens < 1 THEN max_tokens ELSE max_tokens - 1)

\* g_strsplit(string, delimiter, max_tokens): the empty string gives no token
g_strsplit(string, delim, max_tokens) ==
    IF string = <<>> THEN <<>> ELSE SplitRemainder(string, delim, max_tokens)

g_strv_length(strv) == Len(strv)

RECURSIVE fu_strjoin(_, _)
\* fu_strjoin(separator, array): the elements with the separator between them
fu_strjoin(sep, array) ==
    IF Len(array) = 0 THEN <<>>
    ELSE IF Len(array) = 1 THEN array[1]
    ELSE array[1] \o sep \o fu_strjoin(sep, Tail(array))

(***************************************************************************)
(* GLib hash table                                                         *)
(***************************************************************************)
\* an insert that keeps the old entry of the key beside the new one
g_hash_table_insert_keep_old(table, key, value) == table \cup {<<key, value>>}

\* g_hash_table_insert: the entry of an existing key is replaced
g_hash_table_insert(table, key, value) ==
    {e \in table : e[1] # key} \cup {<<key, value>>}

\* g_hash_table_lookup: a pointer to the value, NULL when the key is absent
g_hash_table_lookup(table, key) ==
    IF \E e \in table : e[1] = key
    THEN Ptr((CHOOSE e \in table : e[1] = key)[2])
    ELSE NULL

g_hash_table_size(table) == Cardinality(table)

RECURSIVE IterOrders(_)
\* the orders in which a GHashTableIter may visit the entries
IterOrders(table) ==
    IF table = {} THEN {<<>>}
    ELSE UNION {{<<e>> \o o : o \in IterOrders(table \ {e})} : e \in table}

(***************************************************************************)
(* fu_engine_integrity_new, fu_engine_integrity_add_checksum               *)
(***************************************************************************)
fu_engine_integrity_new == {}

\* the checksum stored as the key and the id as the value
AddChecksumSwapped(table, id, csum) == g_hash_table_insert(table, csum, id)

fu_engine_integrity_add_checksum(table, id, csum) ==
    g_hash_table_insert(table, id, csum)

(***************************************************************************)
(* fu_engine_integrity_measure                                             *)
(***************************************************************************)
FU_EFIVAR_GUID_EFI_GLOBAL == "FU_EFIVAR_GUID_EFI_GLOBAL"

FU_EFIVAR_GUID_SECURITY_DATABASE == "FU_EFIVAR_GUID_SECURITY_DATABASE"

\* the Boot#### loop runs for i < 0xFF
BootEntries == 255

HexDigits ==
    <<"0", "1", "2", "3", "4", "5", "6", "7", "8", "9", "A", "B", "C", "D", "E", "F">>

\* g_strdup_printf("Boot%04X", i)
BootName(i) ==
    <<"B", "o", "o", "t">>
    \o <<HexDigits[((i \div 4096) % 16) + 1], HexDigits[((i \div 256) % 16) + 1],
         HexDigits[((i \div 16) % 16) + 1], HexDigits[(i % 16) + 1]>>

\* the names the Boot#### loop asks for, in order
BootNames == [i \in 1..BootEntries |-> BootName(i - 1)]

\* g_strdup_printf("UEFI:%s", name)
UefiId(name) == <<"U", "E", "F", "I", ":">> \o name

\* g_strdup_printf("ACPI:%s", table)
AcpiId(name) == <<"A", "C", "P", "I", ":">> \o name

\* the keys[] array of fu_engine_integrity_measure_uefi, up to its NULL end
keys ==
    << <<FU_EFIVAR_GUID_EFI_GLOBAL, <<"B", "o", "o", "t", "O", "r", "d", "e", "r">> >>,
       <<FU_EFIVAR_GUID_EFI_GLOBAL, <<"B", "o", "o", "t", "C", "u", "r", "r", "e", "n", "t">> >>,
       <<FU_EFIVAR_GUID_EFI_GLOBAL, <<"K", "E", "K">> >>,
       <<FU_EFIVAR_GUID_EFI_GLOBAL, <<"P", "K">> >>,
       <<FU_EFIVAR_GUID_SECURITY_DATABASE, <<"d", "b">> >>,
       <<FU_EFIVAR_GUID_SECURITY_DATABASE, <<"d", "b", "x">> >> >>

\* the tables[] array of fu_engine_integrity_measure_acpi, up to its NULL end
tables == << <<"S", "L", "I", "C">> >>

\* The platform: env.efivars maps <<guid, name>> of each UEFI variable that
\* exists to its bytes, env.acpi maps the name of each readable file of the
\* ACPI tables directory to its bytes.  A blob is a sequence of bytes.
fu_efivar_get_data_bytes(env, guid, name) ==
    IF <<guid, name>> \in DOMAIN env.efivars THEN Ptr(env.efivars[<<guid, name>>]) ELSE NULL

fu_bytes_get_contents(env, name) ==
    IF name \in DOMAIN env.acpi THEN Ptr(env.acpi[name]) ELSE NULL

g_bytes_get_size(blob) == Len(blob)

\* SHA-256 as lowercase hex, cut to its first eight digits, of the blobs the
\* model's platforms hold
g_compute_checksum_for_bytes(blob) ==
    CASE blob = <<>> -> <<"e", "3", "b", "0", "c", "4", "4", "2">>
      [] blob = <<1>> -> <<"4", "b", "f", "5", "1", "2", "2", "f">>
      [] blob = <<2>> -> <<"d", "b", "c", "1", "b", "4", "c", "9">>

fu_engine_integrity_add_measurement(table, id, blob) ==
    fu_engine_integrity_add_checksum(table, id, g_compute_checksum_for_bytes(blob))

\* the <<id, blob>> pairs the important-keys loop measures, in order
UefiKeyMeasurements(env) ==
    LET Blob(i) == fu_efivar_get_data_bytes(env, keys[i][1], keys[i][2])
        Measured(i) == Blob(i) # NULL
        idx == SelectSeq([i \in 1..Len(keys) |-> i], Measured)
    IN [n \in 1..Len(idx) |-> <<UefiId(keys[idx[n]][2]), Blob(idx[n])[1]>>]

\* the <<id, blob>> pairs the Boot#### loop measures, in order
UefiBootMeasurements(env) ==
    LET Blob(i) == fu_efivar_get_data_bytes(env, FU_EFIVAR_GUID_EFI_GLOBAL, BootNames[i])
        Measured(i) == Blob(i) # NULL /\ g_bytes_get_size(Blob(i)[1]) > 0
        idx == SelectSeq([i \in 1..BootEntries |-> i], Measured)
    IN [n \in 1..Len(idx) |-> <<UefiId(BootNames[idx[n]]), Blob(idx[n])[1]>>]

\* the <<id, blob>> pairs fu_engine_integrity_measure_acpi measures, in order
AcpiMeasurements(env) ==
    LET Blob(i) == fu_bytes_get_contents(env, tables[i])
        Measured(i) == Blob(i) # NULL /\ g_bytes_get_size(Blob(i)[1]) > 0
        idx == SelectSeq([i \in 1..Len(tables) |-> i], Measured)
    IN [n \in 1..Len(idx) |-> <<AcpiId(tables[idx[n]]), Blob(idx[n])[1]>>]

RECURSIVE AddMeasurements(_, _)
AddMeasurements(table, pairs) ==
    IF pairs = <<>> THEN table
    ELSE AddMeasurements(fu_engine_integrity_add_measurement(table, pairs[1][1], pairs[1][2]),
                         Tail(pairs))

fu_engine_integrity_measure_uefi(table, env) ==
    AddMeasurements(AddMeasurements(table, UefiKeyMeasurements(env)),
                    UefiBootMeasurements(env))

fu_engine_integrity_measure_acpi(table, env) ==
    AddMeasurements(table, AcpiMeasurements(env))

\* the size check of a measure that looks at nothing
MeasureResultAlwaysOk(table) == [ok |-> TRUE, err |-> NoError]

\* the "nothing of use" check at the end of fu_engine_integrity_measure
MeasureResult(table) ==
    IF g_hash_table_size(table) = 0
    THEN [ok |-> FALSE, err |-> G_IO_ERROR_NOT_FOUND]
    ELSE [ok |-> TRUE, err |-> NoError]

\* the add_checksum calls a measure on platform env makes, in order
MeasureAdds(env) ==
    LET pairs == UefiKeyMeasurements(env) \o UefiBootMeasurements(env)
                 \o AcpiMeasurements(env)
    IN [i \in 1..Len(pairs) |->
           <<pairs[i][1], g_compute_checksum_for_bytes(pairs[i][2])>>]

\* fu_engine_integrity_measure: the table afterwards and what is returned
fu_engine_integrity_measure(table, env) ==
    LET t == fu_engine_integrity_measure_acpi(fu_engine_integrity_measure_uefi(table, env), env)
    IN [table |-> t] @@ MeasureResult(t)

(***************************************************************************)
(* fu_engine_integrity_to_string                                           *)
(***************************************************************************)
\* the two arguments of the format in the wrong order
KvLineSwapped(key, value) == value \o <<"=">> \o key

\* g_strdup_printf("%s=%s", key, value)
KvLine(key, value) == key \o <<"=">> \o value

\* the KV array built by a walk of the table in the order `order`
KvArray(order) == [i \in 1..Len(order) |-> KvLine(order[i][1], order[i][2])]

\* a to_string without the sanity check: the empty table gives ""
ToStringNoSanityCheck(table, order) == Ptr(fu_strjoin(<<"\n">>, KvArray(order)))

\* fu_engine_integrity_to_string: NULL for the empty table, else a pointer
\* to the joined lines
fu_engine_integrity_to_string(table, order) ==
    IF g_hash_table_size(table) = 0
    THEN NULL
    ELSE Ptr(fu_strjoin(<<"\n">>, KvArray(order)))

(***************************************************************************)
(* fu_engine_integrity_from_string                                         *)
(***************************************************************************)
\* a skip test that knows blank lines only
IsSkippedBlankOnly(line) == line = <<>>

\* lines[i][0] == '\0' || lines[i][0] == '#'
IsSkipped(line) == line = <<>> \/ line[1] = "#"

RECURSIVE ParseLines(_, _, _, _)
\* the loop over lines[i] from index i on; adds are the add_checksum calls made
ParseLines(table, adds, lines, i) ==
    IF i > Len(lines)
    THEN [ok |-> TRUE, err |-> NoError, table |-> table, adds |-> adds]
    ELSE IF IsSkipped(lines[i])
    THEN ParseLines(table, adds, lines, i + 1)
    ELSE LET tokens == g_strsplit(lines[i], "=", 2)
         IN IF g_strv_length(tokens) # 2
            THEN [ok |-> FALSE, err |-> G_IO_ERROR_INVALID_DATA,
                  table |-> table, adds |-> adds]
            ELSE ParseLines(fu_engine_integrity_add_checksum(table, tokens[1], tokens[2]),
                            Append(adds, <<tokens[1], tokens[2]>>),
                            lines,
                            i + 1)

\* a loop that starts at the second line
FromStringFromSecondLine(table, str) ==
    ParseLines(table, <<>>, g_strsplit(str, "\n", -1), 2)

\* fu_engine_integrity_from_string: the table afterwards and what is returned
fu_engine_integrity_from_string(table, str) ==
    ParseLines(table, <<>>, g_strsplit(str, "\n", -1), 1)

(***************************************************************************)
(* fu_engine_integrity_compare                                             *)
(***************************************************************************)
MISSING == <<"M", "I", "S", "S", "I", "N", "G">>

\* g_strdup_printf("%s=%s->%s", key, old, new)
DiffRecord(key, old, new) == key \o <<"=">> \o old \o <<"-", ">">> \o new

RECURSIVE ScanSelf(_, _, _)
\* "look at what we have now": the records of a walk of self in orderSelf
ScanSelf(orderSelf, otherTable, i) ==
    IF i > Len(orderSelf) THEN <<>>
    ELSE LET key == orderSelf[i][1]
             value == orderSelf[i][2]
             value2 == g_hash_table_lookup(otherTable, key)
             rec == IF value2 = NULL
                    THEN <<DiffRecord(key, MISSING, value)>>
                    ELSE IF value # value2[1]
                    THEN <<DiffRecord(key, value2[1], value)>>
                    ELSE <<>>
         IN rec \o ScanSelf(orderSelf, otherTable, i + 1)

RECURSIVE ScanOtherAnyDifference(_, _, _)
\* a second walk that reports every key of other whose value differs in self
ScanOtherAnyDifference(orderOther, selfTable, i) ==
    IF i > Len(orderOther) THEN <<>>
    ELSE LET key == orderOther[i][1]
             value == orderOther[i][2]
             value2 == g_hash_table_lookup(selfTable, key)
             rec == IF value2 = NULL \/ value2 # Ptr(value)
                    THEN <<DiffRecord(key, value, MISSING)>>
                    ELSE <<>>
         IN rec \o ScanOtherAnyDifference(orderOther, selfTable, i + 1)

\* a second walk that reports nothing
ScanOtherNothing(orderOther, selfTable, i) == <<>>

RECURSIVE ScanOther(_, _, _)
\* "look at what we had then": the records of a walk of other in orderOther
ScanOther(orderOther, selfTable, i) ==
    IF i > Len(orderOther) THEN <<>>
    ELSE LET key == orderOther[i][1]
             value == orderOther[i][2]
             value2 == g_hash_table_lookup(selfTable, key)
             rec == IF value2 = NULL
                    THEN <<DiffRecord(key, value, MISSING)>>
                    ELSE <<>>
         IN rec \o ScanOther(orderOther, selfTable, i + 1)

\* fu_engine_integrity_compare: the record array and what is returned
fu_engine_integrity_compare(selfTable, orderSelf, otherTable, orderOther) ==
    LET array == ScanSelf(orderSelf, otherTable, 1) \o ScanOther(orderOther, selfTable, 1)
    IN IF Len(array) > 0
       THEN [ok |-> FALSE, err |-> G_IO_ERROR_INVALID_DATA,
             msg |-> fu_strjoin(<<",", " ">>, array), array |-> array]
       ELSE [ok |-> TRUE, err |-> NoError, msg |-> <<>>, array |-> array]

(***************************************************************************)
(* The inputs the operations are driven with                               *)
(***************************************************************************)
Handles == {"self", "other"}

IdPool == {<<"A">>, <<"B">>}

CsumPool == {<<"1">>, <<"2">>}

\* entries that are written and read back: plain ones, one whose checksum
\* holds "=", one with an empty id and an empty checksum, and ones whose id
\* holds a character of the text format ("=", "#" at its start, a newline)
RoundTripEntryPool ==
    {<<<<"A">>, <<"1">>>>, <<<<"B">>, <<"2">>>>, <<<<"A">>, <<"2", "=">>>>,
     <<<<>>, <<>>>>,
     <<<<"A", "=", "B">>, <<"1">>>>, <<<<"#", "B">>, <<"2">>>>,
     <<<<"A", "\n", "B">>, <<"1">>>>}

\* the lines the texts are made of: id=checksum lines (one with a second
\* "="), a comment, a blank line, a line without "=", a line with an empty
\* id, a line with an empty checksum
LinePool ==
    {<<"A", "=", "1">>, <<"A", "=", "2">>, <<"B", "=", "2">>, <<"A", "=", "1", "=", "2">>,
     <<"#", "c">>, <<>>, <<"B">>, <<"=", "x">>, <<"A", "=">>}

\* every text of at most MaxLines lines of LinePool, and "A=1\n#c\n\nB=2"
TextPool ==
    {fu_strjoin(<<"\n">>, ls) : ls \in UNION {[1..n -> LinePool] : n \in 0..MaxLines}}
    \cup {<<"A", "=", "1", "\n", "#", "c", "\n", "\n", "B", "=", "2">>}

PK == <<FU_EFIVAR_GUID_EFI_GLOBAL, <<"P", "K">> >>

Boot0001 == <<FU_EFIVAR_GUID_EFI_GLOBAL, BootName(1)>>

\* not measured: the Boot#### loop ends before 0xFF
Boot00FF == <<FU_EFIVAR_GUID_EFI_GLOBAL, BootName(255)>>

SLIC == <<"S", "L", "I", "C">>

\* the platforms: nothing readable; variables and a table that exist but are
\* empty; an empty PK; a PK and a boot entry; a SLIC table
EnvPool ==
    {[efivars |-> <<>>, acpi |-> <<>>],
     [efivars |-> (Boot0001 :> <<>>) @@ (Boot00FF :> <<1>>), acpi |-> (SLIC :> <<>>)],
     [efivars |-> (PK :> <<>>), acpi |-> <<>>],
     [efivars |-> (PK :> <<1>>) @@ (Boot0001 :> <<2>>), acpi |-> <<>>],
     [efivars |-> <<>>, acpi |-> (SLIC :> <<1>>)]}

\* the entries of the snapshots that are compared
CompareEntryPool ==
    ({<<"A">>, <<"B">>, <<"C">>} \X {<<"1">>, <<"2">>}) \cup {<<<<"B">>, <<>>>>}

(***************************************************************************)
(* State                                                                   *)
(*   self, other  the two snapshots a caller holds                         *)
(*   saved        what the last to_string returned (NULL or the text)      *)
(*   savedFrom    the table that to_string read                            *)
(*   last         per snapshot, id |-> checksum of the most recent         *)
(*                add_checksum call for the id since new()                 *)
(*   ret          the last call: its name, its snapshot h, the table pre   *)
(*                before it, its input text, the add_checksum calls it     *)
(*                made, and what it returned; for compare, h2 is the       *)
(*                snapshot compared against and pre is its table           *)
(***************************************************************************)
Table(h) == IF h = "self" THEN self ELSE other

NoCall ==
    [op |-> "none", h |-> "self", h2 |-> "self", ok |-> TRUE, err |-> NoError, msg |-> <<>>,
     pre |-> {}, text |-> <<>>, adds |-> <<>>, out |-> NULL, array |-> <<>>]

RECURSIVE Record(_, _)
\* last after the add_checksum calls adds
Record(f, adds) ==
    IF adds = <<>> THEN f
    ELSE Record((adds[1][1] :> adds[1][2]) @@ f, Tail(adds))

\* store table t in snapshot h, and remember the calls adds made on it
Store(h, t, adds) ==
    /\ self' = IF h = "self" THEN t ELSE self
    /\ other' = IF h = "other" THEN t ELSE other
    /\ last' = [last EXCEPT ![h] = Record(last[h], adds)]

Init ==
    /\ self = fu_engine_integrity_new
    /\ other = fu_engine_integrity_new
    /\ saved = NULL
    /\ savedFrom = {}
    /\ last = [h \in Handles |-> <<>>]
    /\ ret = NoCall

\* h = fu_engine_integrity_new()
New(h) ==
    /\ self' = IF h = "self" THEN fu_engine_integrity_new ELSE self
    /\ other' = IF h = "other" THEN fu_engine_integrity_new ELSE other
    /\ last' = [last EXCEPT ![h] = <<>>]
    /\ ret' = [NoCall EXCEPT !.op = "new", !.h = h, !.pre = Table(h)]
    /\ UNCHANGED <<saved, savedFrom>>

\* fu_engine_integrity_add_checksum(h, id, csum)
AddChecksum(h, id, csum) ==
    /\ Store(h, fu_engine_integrity_add_checksum(Table(h), id, csum), <<<<id, csum>>>>)
    /\ ret' = [NoCall EXCEPT !.op = "add_checksum", !.h = h, !.pre = Table(h),
                             !.adds = <<<<id, csum>>>>]
    /\ UNCHANGED <<saved, savedFrom>>

\* fu_engine_integrity_measure(h, &error) on the platform env
Measure(h, env) ==
    LET r == fu_engine_integrity_measure(Table(h), env)
        adds == MeasureAdds(env)
    IN /\ Store(h, r.table, adds)
       /\ ret' = [NoCall EXCEPT !.op = "measure", !.h = h, !.pre = Table(h),
                                !.adds = adds, !.ok = r.ok, !.err = r.err]
       /\ UNCHANGED <<saved, savedFrom>>

\* saved = fu_engine_integrity_to_string(h), the iterator walking in `order`
CallToString(h) ==
    \E order \in IterOrders(Table(h)) :
        LET str == fu_engine_integrity_to_string(Table(h), order)
        IN /\ saved' = str
           /\ savedFrom' = Table(h)
           /\ ret' = [NoCall EXCEPT !.op = "to_string", !.h = h, !.pre = Table(h),
                                    !.out = str]
           /\ UNCHANGED <<self, other, last>>

\* fu_engine_integrity_from_string(h, str, &error)
FromString(h, str) ==
    LET r == fu_engine_integrity_from_string(Table(h), str)
    IN /\ Store(h, r.table, r.adds)
       /\ ret' = [NoCall EXCEPT !.op = "from_string", !.h = h, !.pre = Table(h),
                                !.text = str, !.adds = r.adds, !.ok = r.ok,
                                !.err = r.err]
       /\ UNCHANGED <<saved, savedFrom>>

\* fu_engine_integrity_from_string(h, saved, &error): the persisted text is read back
Reload(h) ==
    /\ saved # NULL
    /\ FromString(h, saved[1])

\* fu_engine_integrity_compare(a, b, &error), the iterators walking in some order
Compare(a, b) ==
    \E oa \in IterOrders(Table(a)), ob \in IterOrders(Table(b)) :
        LET r == fu_engine_integrity_compare(Table(a), oa, Table(b), ob)
        IN /\ ret' = [NoCall EXCEPT !.op = "compare", !.h = a, !.h2 = b,
                                    !.pre = Table(b),
                                    !.ok = r.ok, !.err = r.err, !.msg = r.msg,
                                    !.array = r.array]
           /\ UNCHANGED <<self, other, saved, savedFrom, last>>

(***************************************************************************)
(* The caller.  Every operation is synchronous: the caller makes a call    *)
(* when it holds no result (Idle), and takes the result of the call        *)
(* (Return) before it makes the next one.                                  *)
(***************************************************************************)
Idle == ret.op = "none"

Return ==
    /\ ~Idle
    /\ ret' = NoCall
    /\ UNCHANGED <<self, other, saved, savedFrom, last>>

(***************************************************************************)
(* Spec: one snapshot is built by new, add_checksum, measure and           *)
(* from_string of any text of at most MaxLines lines.                      *)
(***************************************************************************)
DoNew == Idle /\ New("self")

DoAddChecksum ==
    /\ Idle
    /\ \E id \in IdPool, csum \in CsumPool : AddChecksum("self", id, csum)

DoMeasure ==
    /\ Idle
    /\ \E env \in EnvPool : Measure("self", env)

DoFromString ==
    /\ Idle
    /\ \E str \in TextPool : FromString("self", str)

Next == DoNew \/ DoAddChecksum \/ DoMeasure \/ DoFromString \/ Return

Spec == Init /\ [][Next]_vars

(***************************************************************************)
(* SpecRoundTrip: self is built by add_checksum from any strings, then     *)
(* written once by to_string (after which it is no longer changed), and    *)
(* the text is read back into other by from_string.                        *)
(***************************************************************************)
DoAddAnyChecksum ==
    /\ Idle
    /\ saved = NULL
    /\ \E e \in RoundTripEntryPool : AddChecksum("self", e[1], e[2])

DoToString ==
    /\ Idle
    /\ saved = NULL
    /\ CallToString("self")

DoReload == Idle /\ Reload("other")

NextRoundTrip == DoAddAnyChecksum \/ DoToString \/ DoReload \/ Return

SpecRoundTrip == Init /\ [][NextRoundTrip]_vars

(***************************************************************************)
(* SpecCompare: two snapshots are built by add_checksum and compared.      *)
(***************************************************************************)
DoNewEither ==
    /\ Idle
    /\ \E h \in Handles : New(h)

DoAddEither ==
    /\ Idle
    /\ \E h \in Handles, e \in CompareEntryPool : AddChecksum(h, e[1], e[2])

DoCompare ==
    /\ Idle
    /\ \E b \in Handles : Compare("self", b)

NextCompare == DoNewEither \/ DoAddEither \/ DoCompare \/ Return

SpecCompare == Init /\ [][NextCompare]_vars

(***************************************************************************)
(* Properties.  What follows states the claims; it is written from their   *)
(* wording, with its own reading of a table and of a text.                 *)
(***************************************************************************)
Ids(t) == {e[1] : e \in t}

\* the checksum a table holds for an id it holds
Val(t, id) == (CHOOSE e \in t : e[1] = id)[2]

Unique(t) == \A e1, e2 \in t : e1[1] = e2[1] => e1 = e2

Has(str, c) == \E i \in 1..Len(str) : str[i] = c

StartsWith(str, c) == Len(str) > 0 /\ str[1] = c

RECURSIVE LinesOf(_)
\* the lines of a text: one more than it has newlines
LinesOf(text) ==
    IF ~Has(text, "\n") THEN <<text>>
    ELSE LET i == CHOOSE k \in 1..Len(text) :
                      text[k] = "\n" /\ \A j \in 1..(k - 1) : text[j] # "\n"
         IN <<SubSeq(text, 1, i - 1)>> \o LinesOf(SubSeq(text, i + 1, Len(text)))

RECURSIVE TextOf(_)
\* the text of a non-empty sequence of lines
TextOf(ls) ==
    IF Len(ls) = 1 THEN ls[1] ELSE ls[1] \o <<"\n">> \o TextOf(Tail(ls))

IsCommentOrBlank(line) == line = <<>> \/ StartsWith(line, "#")

\* of a line with "=": what stands before the first "=" and what stands after it
IdPart(line) ==
    SubSeq(line, 1, (CHOOSE k \in 1..Len(line) :
                        line[k] = "=" /\ \A j \in 1..(k - 1) : line[j] # "=") - 1)

CsumPart(line) == SubSeq(line, Len(IdPart(line)) + 2, Len(line))

\* the table t after the lines ls, all with "=" or comment or blank, are read
\* into it from the first to the last
RECURSIVE ReadInto(_, _)
ReadInto(t, ls) ==
    IF ls = <<>> THEN t
    ELSE IF IsCommentOrBlank(ls[1]) THEN ReadInto(t, Tail(ls))
    ELSE ReadInto({e \in t : e[1] # IdPart(ls[1])}
                      \cup {<<IdPart(ls[1]), CsumPart(ls[1])>>},
                  Tail(ls))

(***************************************************************************)
(* C9, under Spec                                                          *)
(***************************************************************************)
DuplicateInsert ==
    /\ ret.op = "add_checksum"
    /\ ret.adds[1][1] \in Ids(ret.pre)

\* C9: after any sequence of add_checksum calls since new(), made directly
\* or by from_string or measure, the snapshot holds each id at most once,
\* with the checksum of the most recent insert of the id; an insert of an id
\* already held raises no error, keeps the number of entries and leaves the
\* checksum of every other id as it was.
C9_LastWriteWins ==
    /\ Unique(self)
    /\ Ids(self) = DOMAIN last["self"]
    /\ \A e \in self : last["self"][e[1]] = e[2]
    /\ DuplicateInsert =>
          /\ ret.ok /\ ret.err = NoError
          /\ Cardinality(self) = Cardinality(ret.pre)
          /\ \A e \in ret.pre : e[1] # ret.adds[1][1] => e \in self

\* an id held with another checksum is inserted again, beside another id
C9_Witness ==
    /\ DuplicateInsert
    /\ Val(ret.pre, ret.adds[1][1]) # ret.adds[1][2]
    /\ Cardinality(self) >= 2
    /\ Val(self, ret.adds[1][1]) = ret.adds[1][2]

(***************************************************************************)
(* C6, under Spec                                                          *)
(***************************************************************************)
\* C6 as claimed: measure fails with "no measurements" when the producers
\* yield no pair and succeeds when they yield at least one, whatever the
\* snapshot held before the call.
C6_Original ==
    ret.op = "measure" =>
        /\ ret.adds = <<>> => ~ret.ok /\ ret.err = G_IO_ERROR_NOT_FOUND
        /\ ret.adds # <<>> => ret.ok

\* C6 as amended: measure fails with "no measurements" exactly when the
\* snapshot is empty after every producer ran, that is when the producers
\* yield no pair and the snapshot held no entry before the call; it succeeds
\* when a producer yields a pair or the snapshot was populated before.
C6_Measure ==
    ret.op = "measure" =>
        /\ ret.ok <=> (ret.adds # <<>> \/ ret.pre # {})
        /\ ret.ok => ret.err = NoError /\ self # {}
        /\ ~ret.ok => ret.err = G_IO_ERROR_NOT_FOUND /\ self = {}

\* a populated snapshot is measured on a platform that yields nothing
C6_Witness ==
    /\ ret.op = "measure"
    /\ ret.pre # {}
    /\ ret.adds = <<>>
    /\ ret.ok

(***************************************************************************)
(* C4, C5, C7, C10, under Spec                                             *)
(***************************************************************************)
\* a line that is no comment and not blank and does not split on its first
\* "=" into two non-empty parts
NotTwoNonEmptyParts(line) ==
    /\ ~IsCommentOrBlank(line)
    /\ \/ ~Has(line, "=")
       \/ IdPart(line) = <<>>
       \/ CsumPart(line) = <<>>

\* C4: from_string fails with invalid data on every line that is no comment,
\* not blank and does not split on its first "=" into exactly two non-empty
\* parts, so a parse that succeeds never inserts an empty id or an empty
\* checksum.
C4_Claim ==
    ret.op = "from_string" =>
        /\ (\E line \in Range(LinesOf(ret.text)) : NotTwoNonEmptyParts(line))
              => ~ret.ok /\ ret.err = G_IO_ERROR_INVALID_DATA
        /\ ret.ok => \A a \in Range(ret.adds) : a[1] # <<>> /\ a[2] # <<>>

FailedParse == ret.op = "from_string" /\ ~ret.ok

\* the index of the first line that is no comment, not blank and has no "="
FirstBadLine(ls) ==
    CHOOSE k \in 1..Len(ls) :
        /\ ~IsCommentOrBlank(ls[k]) /\ ~Has(ls[k], "=")
        /\ \A j \in 1..(k - 1) : IsCommentOrBlank(ls[j]) \/ Has(ls[j], "=")

\* C5 as claimed: a from_string that fails leaves the target with exactly the
\* entries it held before the call.
C5_Original == FailedParse => self = ret.pre

\* C5 as amended: a from_string that fails has met a line that is no comment,
\* not blank and has no "="; it leaves the target with the entries it held
\* before the call, changed by the pairs of the lines before the first such
\* line, which stay inserted; no later line is read.
C5_PartialParse ==
    FailedParse =>
        LET ls == LinesOf(ret.text)
        IN /\ \E k \in 1..Len(ls) : ~IsCommentOrBlank(ls[k]) /\ ~Has(ls[k], "=")
           /\ self = ReadInto(ret.pre, SubSeq(ls, 1, FirstBadLine(ls) - 1))
           /\ ret.err = G_IO_ERROR_INVALID_DATA

\* "A=1" before a line without "=": the parse fails and A stays inserted
C5_Witness ==
    /\ FailedParse
    /\ ret.pre = {}
    /\ ret.text = <<"A", "=", "1", "\n", "B">>
    /\ self = {<<<<"A">>, <<"1">>>>}

\* comment and blank lines that are put into a text
SkipLinePool == {<<>>, <<"#">>, <<"#", "c">>, <<"#", "A", "=", "1">>}

\* the text with line sk put in before line p + 1 (after the last line when
\* p is the number of lines)
WithLineAt(text, p, sk) ==
    LET ls == LinesOf(text)
    IN TextOf(SubSeq(ls, 1, p) \o <<sk>> \o SubSeq(ls, p + 1, Len(ls)))

\* the text without its comment and blank lines ("" when no line is left)
WithoutSkipped(text) ==
    LET ls == SelectSeq(LinesOf(text), LAMBDA l : ~IsCommentOrBlank(l))
    IN IF ls = <<>> THEN <<>> ELSE TextOf(ls)

C7_Example == <<"A", "=", "1", "\n", "#", "c", "\n", "\n", "B", "=", "2">>

\* C7: from_string skips every line that is empty or begins with "#": such
\* lines put anywhere into a text change neither whether the parse succeeds
\* nor the resulting mapping, none of them fails the parse or inserts an
\* entry, and "A=1\n#c\n\nB=2" yields exactly {A:1, B:2}.
C7_SkipsCommentsAndBlanks ==
    ret.op = "from_string" =>
        /\ \A p \in 0..Len(LinesOf(ret.text)), sk \in SkipLinePool :
              LET r == fu_engine_integrity_from_string(ret.pre, WithLineAt(ret.text, p, sk))
              IN r.ok = ret.ok /\ r.table = self
        /\ LET r == fu_engine_integrity_from_string(ret.pre, WithoutSkipped(ret.text))
           IN r.ok = ret.ok /\ r.table = self /\ r.adds = ret.adds
        /\ (\A l \in Range(LinesOf(ret.text)) : IsCommentOrBlank(l))
              => ret.ok /\ self = ret.pre /\ ret.adds = <<>>
        /\ (ret.text = C7_Example /\ ret.pre = {})
              => ret.ok /\ self = {<<<<"A">>, <<"1">>>>, <<<<"B">>, <<"2">>>>}

\* the example text is read into an empty snapshot
C7_Witness ==
    /\ ret.op = "from_string"
    /\ ret.text = C7_Example
    /\ ret.pre = {}
    /\ ret.ok
    /\ Cardinality(self) = 2

\* the ids of the lines of a text that are no comment and not blank
TextIds(text) ==
    {IdPart(l) : l \in {m \in Range(LinesOf(text)) : ~IsCommentOrBlank(m)}}

\* C10: a from_string that succeeds on a snapshot that holds entries keeps
\* every entry whose id does not occur in the text, overwrites those whose
\* id occurs, and removes none; the result is the mapping of the text alone
\* only when every id the target held occurs in the text (so when the target
\* was empty).
C10_Merges ==
    (ret.op = "from_string" /\ ret.ok) =>
        /\ \A e \in ret.pre : e[1] \notin TextIds(ret.text) => e \in self
        /\ \A id \in TextIds(ret.text) :
              id \in Ids(self) /\ Val(self, id) = Val(ReadInto({}, LinesOf(ret.text)), id)
        /\ Ids(self) = Ids(ret.pre) \cup TextIds(ret.text)
        /\ Unique(self)
        /\ (self = ReadInto({}, LinesOf(ret.text))) <=> (Ids(ret.pre) \subseteq TextIds(ret.text))

\* a text is read into a snapshot of which it overwrites one entry and keeps
\* another
C10_Witness ==
    /\ ret.op = "from_string" /\ ret.ok
    /\ \E e \in ret.pre : e[1] \notin TextIds(ret.text) /\ e \in self
    /\ \E e \in ret.pre : e[1] \in TextIds(ret.text) /\ e \notin self
    /\ self # ReadInto({}, LinesOf(ret.text))

(***************************************************************************)
(* C1, C8, under SpecRoundTrip                                             *)
(***************************************************************************)
\* the text that to_string returned for savedFrom is read into a snapshot
\* that is freshly created and empty
ReadBack ==
    /\ ret.op = "from_string"
    /\ ret.pre = {}
    /\ saved # NULL
    /\ ret.text = saved[1]
    /\ savedFrom # {}

\* no id holds "=" or a newline or starts with "#", no checksum holds a newline
PlainStrings(t) ==
    \A e \in t :
        /\ ~Has(e[1], "=") /\ ~Has(e[1], "\n") /\ ~StartsWith(e[1], "#")
        /\ ~Has(e[2], "\n")

\* C1 as claimed: for every non-empty snapshot s, from_string of the text
\* to_string(s) into a fresh empty snapshot succeeds and yields the mapping
\* of s, whatever the order to_string wrote the entries in.
C1_Original == ReadBack => ret.ok /\ Table(ret.h) = savedFrom

\* C1 as amended: the same, for every non-empty snapshot s in which no id
\* holds "=" or a newline or starts with "#" and no checksum holds a newline.
C1_RoundTrip ==
    (ReadBack /\ PlainStrings(savedFrom)) =>
        ret.ok /\ ret.err = NoError /\ Table(ret.h) = savedFrom

\* three plain entries, written with B first, are read back
C1_Witness ==
    /\ ReadBack
    /\ PlainStrings(savedFrom)
    /\ Cardinality(savedFrom) = 3
    /\ StartsWith(saved[1], "B")
    /\ other = savedFrom

\* one "<id>=<checksum>" line of an entry
EntryLine(e) == e[1] \o <<"=">> \o e[2]

\* no id or checksum holds a newline and no id starts with "#", so that what
\* is written for an entry is one line of text and no comment
LineStrings(t) ==
    \A e \in t : ~Has(e[1], "\n") /\ ~Has(e[2], "\n") /\ ~StartsWith(e[1], "#")

\* text is what is written for the entries of t, each once, in some order,
\* with a newline between two of them and nothing else
JoinedEntries(text, t) ==
    \E o \in IterOrders(t) : text = TextOf([i \in 1..Len(o) |-> EntryLine(o[i])])

\* text read as lines is n lines for the n entries of t: one line per entry,
\* none left out or written twice, no comment or blank line, no newline at
\* its end
LinePerEntry(text, t) ==
    LET ls == LinesOf(text)
    IN /\ Len(ls) = Cardinality(t)
       /\ \A e \in t :
             Cardinality({i \in 1..Len(ls) : ls[i] = EntryLine(e)})
               = Cardinality({f \in t : EntryLine(f) = EntryLine(e)})
       /\ \A i \in 1..Len(ls) : ~IsCommentOrBlank(ls[i])
       /\ text[Len(text)] # "\n"

Compared == ret.op = "compare"

\* C2: compare(self, other) succeeds if and only if the two snapshots hold
\* the same id -> checksum mapping: always for a snapshot against itself or
\* against another snapshot built with the same content, and it fails with
\* invalid data when an id is added, removed or has another checksum.
C2_SucceedsIffEqual ==
    Compared =>
        /\ ret.ok <=> self = ret.pre
        /\ ret.h2 = "self" => ret.ok
        /\ ret.ok => ret.err = NoError
        /\ ~ret.ok => ret.err = G_IO_ERROR_INVALID_DATA

\* two snapshots with the same two entries are compared
C2_Witness ==
    /\ Compared
    /\ ret.h2 = "other"
    /\ Cardinality(self) = 2
    /\ other = self
    /\ ret.ok

\* the ids whose presence or checksum differs between the two snapshots
DiffIds ==
    {id \in Ids(self) \cup Ids(ret.pre) :
        \/ id \notin Ids(self)
        \/ id \notin Ids(ret.pre)
        \/ Val(self, id) # Val(ret.pre, id)}

Missing == <<"M", "I", "S", "S", "I", "N", "G">>

Arrow == <<"-", ">">>

\* the record of an id of DiffIds
RecordOf(id) ==
    IF id \notin Ids(ret.pre)
    THEN id \o <<"=">> \o Missing \o Arrow \o Val(self, id)
    ELSE IF id \notin Ids(self)
    THEN id \o <<"=">> \o Val(ret.pre, id) \o Arrow \o Missing
    ELSE id \o <<"=">> \o Val(ret.pre, id) \o Arrow \o Val(self, id)

\* C3: the discrepancy list of a compare holds exactly one record per id
\* whose presence or checksum differs and none for any other id:
\* "<id>=MISSING-><self>" for an id only in self, "<id>=<other>->MISSING" for
\* an id only in other, "<id>=<other>-><self>" once for an id in both with
\* different checksums, nothing for an id in both with equal checksums.
C3_OneRecordPerDifference ==
    Compared =>
        /\ Len(ret.array) = Cardinality(DiffIds)
        /\ \A id \in DiffIds :
              Cardinality({i \in 1..Len(ret.array) : ret.array[i] = RecordOf(id)}) = 1
        /\ \A i \in 1..Len(ret.array) : \E id \in DiffIds : ret.array[i] = RecordOf(id)
        /\ ret.array # <<>> <=> ~ret.ok

\* a compare with an id only in self, an id only in other and an id in both
\* with different checksums
C3_Witness ==
    /\ Compared
    /\ \E id \in DiffIds : id \notin Ids(ret.pre)
    /\ \E id \in DiffIds : id \notin Ids(self)
    /\ \E id \in DiffIds : id \in Ids(self) /\ id \in Ids(ret.pre)
    /\ Len(ret.array) = 3
    /\ ~ret.ok

====
